---- MODULE Spec2Model ----
(***************************************************************************)
(* Transaction construction of lib/commands.py (Commands.claim, support,   *)
(* update, abandon, _mktx, _calculate_fee) and its proof verifier          *)
(* (Commands._verify_proof).  The wallet, Transaction, claims and lbrycrd  *)
(* modules are collaborators; they are modelled at their interface.        *)
(*                                                                         *)
(* Amounts given by a caller are decimal base-unit numbers.  The model     *)
(* writes such a number as an integer count h of half-subunits, i.e. the   *)
(* base-unit amount h / (2 * COIN), so that int(COIN * amount) truncates.  *)
(***************************************************************************)
EXTENDS Integers, Sequences, FiniteSets, TLC

(* ------------------------------ bounds --------------------------------- *)
MaxCoinValue == 3      \* largest spendable coin of the wallet, in subunits
MaxClaimValue == 2     \* largest claim UTXO of the wallet, in subunits
MaxRelayFee == 1       \* wallet.relayfee(), in subunits
MaxFeePerKb == 1       \* wallet.fee_per_kb(config), in subunits
MaxAmountInput == 7    \* largest amount argument, in half-subunits
MaxFeeInput == 4       \* largest tx_fee argument, in half-subunits
MaxMktxInput == 1      \* largest amount and fee argument of _mktx, in subunits
MaxAddr == 1           \* addresses the wallet derives per chain

(* ------------------------- optional values ----------------------------- *)
None == <<>>
Some(x) == <<x>>
Get(o) == o[1]

(* --------------------------- lbrycrd ----------------------------------- *)
COIN == 100000000
TYPE_ADDRESS == {"ADDRESS"}
TYPE_CLAIM == {"CLAIM"}
TYPE_SUPPORT == {"SUPPORT"}
TYPE_UPDATE == {"UPDATE"}

\* a | b and a & b on the type flags
BitOr(a, b) == a \cup b
BitAnd(a, b) == (a \cap b) # {}

RECURSIVE Reverse(_)
Reverse(s) == IF s = <<>> THEN <<>> ELSE Append(Reverse(Tail(s)), Head(s))

\* lbrycrd.decode_claim_id_hex: the hex string is byte-reversed and decoded
decode_claim_id_hex(claim_id_hex) == Reverse(claim_id_hex)

(* ----------------------- amount arithmetic ----------------------------- *)
\* int(n / d) for d > 0: truncation toward zero
Trunc(n, d) == IF n >= 0 THEN n \div d ELSE -((-n) \div d)

\* int(COIN * amount) for the base-unit amount h / (2 * COIN)
IntCoin(h) == Trunc(COIN * h, 2 * COIN)

(* --------------------------- sizes ------------------------------------- *)
KB == 1000
TxOverhead == 10       \* version, counts, locktime
InputSize == 148       \* Transaction.estimated_input_size of a p2pkh input
PlainOutputSize == 34  \* amount (8 bytes) + pay-to-address script
ClaimIdSize == 20
NameSize == 4

NoPayload == [name |-> None, claim_id |-> None, value |-> None]

PayloadSize(p) ==
    (IF p.name = None THEN 0 ELSE NameSize)
  + (IF p.claim_id = None THEN 0 ELSE ClaimIdSize)
  + (IF p.value = None THEN 0 ELSE Get(p.value).size)

\* the amount is serialized on 8 bytes whatever its value
OutputSize(o) == PlainOutputSize + PayloadSize(o.payload)

RECURSIVE SumOutputSizes(_)
SumOutputSizes(outs) ==
    IF outs = <<>> THEN 0 ELSE OutputSize(Head(outs)) + SumOutputSizes(Tail(outs))

RECURSIVE SumValues(_)
SumValues(ins) ==
    IF ins = <<>> THEN 0 ELSE Head(ins).value + SumValues(Tail(ins))

RECURSIVE SumAmounts(_)
SumAmounts(outs) ==
    IF outs = <<>> THEN 0 ELSE Head(outs).amount + SumAmounts(Tail(outs))

\* Transaction.from_io
from_io(inputs, outputs) == [inputs |-> inputs, outputs |-> outputs]

estimated_input_size(utxo) == InputSize

estimated_size(t) ==
    TxOverhead + Len(t.inputs) * InputSize + SumOutputSizes(t.outputs)

\* tx.get_fee()
get_fee(t) == SumValues(t.inputs) - SumAmounts(t.outputs)

(* ------------------------- fee estimator ------------------------------- *)
CeilDiv(n, d) == (n + d - 1) \div d

Max(a, b) == IF a >= b THEN a ELSE b

fee_for_size_no_floor(relay_fee, per_kb, size) == CeilDiv(size, KB) * per_kb

fee_for_size(relay_fee, per_kb, size) == Max(relay_fee, CeilDiv(size, KB) * per_kb)

\* an output tuple (type, val, amount); val is the address, or (payload, address)
Output(type, payload, address, amount) ==
    [type |-> type, payload |-> payload, address |-> address, amount |-> amount]


(* ------------------------------ state ---------------------------------- *)
VARIABLES
    coins,            \* wallet: spendable coins, as get_spendable_coins() lists them
    claimtrie_coins,  \* wallet: the claim-trie UTXOs (claims and supports)
    relayfee,         \* wallet.relayfee()
    fee_per_kb,       \* wallet.fee_per_kb(config)
    use_encryption,   \* wallet.use_encryption
    password,         \* Commands._password
    callback,         \* Commands._callback
    n_receiving,      \* wallet: receiving addresses derived so far
    n_change,         \* wallet: change addresses derived so far
    method,           \* the command that ran last, "idle" when none is pending
    args,             \* its arguments
    result,           \* its return value
    tx,               \* the transaction it built (Transaction.from_io / wallet)
    locals,           \* its local variables when it returned
    calls             \* the wallet and network calls it made, in order

vars == <<coins, claimtrie_coins, relayfee, fee_per_kb, use_encryption, password,
          callback, n_receiving, n_change, method, args, result, tx, locals, calls>>

wallet_vars == <<coins, claimtrie_coins, relayfee, fee_per_kb, use_encryption>>

commands_vars == <<password, callback>>

Utxo(txid, value, is_support) ==
    [txid |-> txid, nout |-> 0, value |-> value, is_support |-> is_support]

ReceivingAddr(k) == [chain |-> "receiving", index |-> k]
ChangeAddr(k) == [chain |-> "change", index |-> k]
ExternalAddr == [chain |-> "external", index |-> 0]

NoLocals ==
    [amount |-> None, tx_fee |-> None, fee |-> None, outputs |-> None,
     dummy_outputs |-> None, dummy_tx |-> None,
     additional_input_fee |-> None, get_inputs_for_amount |-> None]

\* a returned dict {'success': ..., 'reason': ...}, or an exception that escapes
Ok == [success |-> TRUE, reason |-> "", raised |-> FALSE]
Fail(reason) == [success |-> FALSE, reason |-> reason, raised |-> FALSE]
Raise(exception) == [success |-> FALSE, reason |-> exception, raised |-> TRUE]

\* the reason strings of the returned failures
AmountNotPositive == "Amount must be greater than 0"
NegativeFee == "tx_fee must be greater than or equal to 0"
NotEnoughFundsReason == "Not enough funds"
CannotUpdateSupport == "Cannot update a support"
FeeExceedsAmount == "Fee will exceed amount available in original bid. Increase amount"
FeeExceedsChange == "Fee will be greater than change amount, use amount=None to expend change as fee"
FeeExceedsAbandon == "transaction fee exceeds amount to abandon"

Outcome(r, t, l, c) == [result |-> r, tx |-> t, locals |-> l, calls |-> c]

(* ------------------------------ wallet --------------------------------- *)
\* the elements of cs at the indices in I, in the order of cs
Pick(cs, I) ==
    LET F[k \in 0..Len(cs)] ==
            IF k = 0 THEN <<>>
            ELSE IF k \in I THEN Append(F[k - 1], cs[k]) ELSE F[k - 1]
    IN F[Len(cs)]

\* wallet.make_unsigned_transaction(coins, outputs, config, fixed_fee, change_addr):
\* the transactions the coin selection may return; none means NotEnoughFunds.
\* The fee is fixed_fee, or the estimator's fee for the size of the transaction;
\* what the selected coins hold beyond outputs and fee is the change output.
\* With abandon_txid the coin of that transaction is among the inputs.
make_unsigned_transaction(cs, outputs, fixed_fee, change_addr, abandon_txid) ==
    LET est(t) == IF fixed_fee = None
                  THEN fee_for_size(relayfee, fee_per_kb, estimated_size(t))
                  ELSE Get(fixed_fee)
        change(c) == Output(TYPE_ADDRESS, NoPayload, change_addr, c)
        exact(ins) == from_io(ins, outputs)
        changed(ins) ==
            from_io(ins, Append(outputs,
                change(SumValues(ins) - SumAmounts(outputs)
                       - est(from_io(ins, Append(outputs, change(0)))))))
        required == { k \in 1..Len(cs) : abandon_txid = Some(cs[k].txid) }
        sels == { Pick(cs, I) :
                    I \in { J \in (SUBSET (1..Len(cs))) \ {{}} : required \subseteq J } }
    IN    { exact(ins) : ins \in { i \in sels : get_fee(exact(i)) = est(exact(i)) } }
     \cup { changed(ins) : ins \in { i \in sels :
                get_fee(exact(i)) > est(from_io(i, Append(outputs, change(0)))) } }

NetworkMessage == "rejected by network"

SignAndSend_unasked(t, l, c, broadcast) ==
    { Outcome(Ok, Some(t), l, c \o <<"sign_transaction", "sendtx">>),
      Outcome(Fail(NetworkMessage), Some(t), l, c \o <<"sign_transaction", "sendtx">>) }

\* wallet.sign_transaction, then wallet.sendtx when broadcast is set
SignAndSend(t, l, c, broadcast) ==
    IF broadcast
    THEN { Outcome(Ok, Some(t), l, c \o <<"sign_transaction", "sendtx">>),
           Outcome(Fail(NetworkMessage), Some(t), l,
                   c \o <<"sign_transaction", "sendtx">>) }
    ELSE { Outcome(Ok, Some(t), l, c \o <<"sign_transaction">>) }

(* ---------------------------- commands --------------------------------- *)
calculate_fee(inputs, outputs, set_tx_fee) ==
    IF set_tx_fee # None
    THEN Get(set_tx_fee)
    ELSE fee_for_size(relayfee, fee_per_kb, estimated_size(from_io(inputs, outputs)))

NewAddressCalls(claim_addr, change_addr) ==
       (IF claim_addr = None THEN <<"create_new_address">> ELSE <<>>)
    \o (IF change_addr = None THEN <<"create_new_address(for_change)">> ELSE <<>>)

ConvertOpt(x) == IF x = None THEN None ELSE Some(IntCoin(Get(x)))

cannot_update_unguarded(claim_utxo) == FALSE

\* line 1024: if claim_utxo['is_support']
cannot_update(claim_utxo) == claim_utxo.is_support

fee_exceeds_bid_strict(fee, txout_value) == fee > txout_value

\* line 1034: if fee >= txout_value
fee_exceeds_bid(fee, txout_value) == fee >= txout_value

\* line 1036: txout_value - fee
kept_amount(txout_value, fee) == txout_value - fee

inputs_for_amount_no_input_fee(amount, txout_value, additional_input_fee) ==
    amount - txout_value

\* line 1050: get_inputs_for_amount = amount - txout_value + additional_input_fee
inputs_for_amount(amount, txout_value, additional_input_fee) ==
    amount - txout_value + additional_input_fee

\* lines 1063-1067: the update output, then the outputs of dummy_tx that are
\* not update outputs
merged_outputs(update_output, dummy_tx) ==
    <<update_output>> \o
    SelectSeq(dummy_tx.outputs, LAMBDA o : ~BitAnd(o.type, TYPE_UPDATE))

fee_exceeds_change_or_equal(fee, txout_value, amount) == fee >= txout_value - amount

\* line 1075: if fee > txout_value-amount
fee_exceeds_change(fee, txout_value, amount) == fee > txout_value - amount

change_amount_no_fee(txout_value, amount, fee) == txout_value - amount

\* line 1079: txout_value-amount-fee
change_amount(txout_value, amount, fee) == txout_value - amount - fee

fee_exceeds_abandon_or_equal(fee, txout_value) == fee >= txout_value

\* line 1133: if fee > txout_value
fee_exceeds_abandon(fee, txout_value) == fee > txout_value

claim_outputs_as_support(name, val, claim_addr, amount) ==
    <<Output(BitOr(TYPE_ADDRESS, TYPE_SUPPORT),
             [name |-> Some(name), claim_id |-> None, value |-> Some(val)],
             claim_addr, amount)>>

\* line 902: outputs = [(TYPE_ADDRESS | TYPE_CLAIM,((name,val),claim_addr),amount)]
claim_outputs(name, val, claim_addr, amount) ==
    <<Output(BitOr(TYPE_ADDRESS, TYPE_CLAIM),
             [name |-> Some(name), claim_id |-> None, value |-> Some(val)],
             claim_addr, amount)>>

\* line 960: outputs = [(TYPE_ADDRESS | TYPE_SUPPORT,((name,claim_id),claim_addr),amount)]
support_outputs(name, claim_id, claim_addr, amount) ==
    <<Output(BitOr(TYPE_ADDRESS, TYPE_SUPPORT),
             [name |-> Some(name), claim_id |-> Some(claim_id), value |-> None],
             claim_addr, amount)>>

not_enough_funds_signed(l, c) ==
    { Outcome(Fail(NotEnoughFundsReason), None, l, Append(c, "sign_transaction")) }

\* lines 906-907, 964-965, 1056-1057: except NotEnoughFunds: return
not_enough_funds(l, c) == { Outcome(Fail(NotEnoughFundsReason), None, l, c) }

UpdateOutcomes(claim_utxo, name, claim_id_hex, val, amount_arg, broadcast, claim_addr_arg, tx_fee_arg, change_addr_arg) ==
    LET claim_addr == IF claim_addr_arg = None
                      THEN ReceivingAddr(n_receiving + 1) ELSE Get(claim_addr_arg)
        change_addr == IF change_addr_arg = None
                       THEN ChangeAddr(n_change + 1) ELSE Get(change_addr_arg)
        c0 == NewAddressCalls(claim_addr_arg, change_addr_arg)
        claim_id == decode_claim_id_hex(claim_id_hex)
        amount == ConvertOpt(amount_arg)
        tx_fee == ConvertOpt(tx_fee_arg)
        l0 == [NoLocals EXCEPT !.amount = amount]
        l1 == [l0 EXCEPT !.tx_fee = tx_fee]
        c1 == Append(c0, "get_spendable_claimtrietx_coin")
        payload == [name |-> Some(name), claim_id |-> Some(claim_id), value |-> Some(val)]
        upd(a) == Output(BitOr(TYPE_ADDRESS, TYPE_UPDATE), payload, claim_addr, a)
        inputs == <<claim_utxo>>
        txout_value == claim_utxo.value
    IN
    IF amount # None /\ Get(amount) <= 0
    THEN { Outcome(Fail(AmountNotPositive), None, l0, c0) }
    ELSE IF tx_fee # None /\ Get(tx_fee) < 0
    THEN { Outcome(Fail(NegativeFee), None, l1, c0) }
    ELSE IF cannot_update(claim_utxo)
    THEN { Outcome(Fail(CannotUpdateSupport), None, l1, c1) }
    ELSE IF amount = None
    THEN LET dummy_outputs == <<upd(txout_value)>>
             fee == calculate_fee(inputs, dummy_outputs, tx_fee)
             l2 == [l1 EXCEPT !.dummy_outputs = Some(dummy_outputs), !.fee = Some(fee)]
             outputs == <<upd(kept_amount(txout_value, fee))>>
         IN IF fee_exceeds_bid(fee, txout_value)
            THEN { Outcome(Fail(FeeExceedsAmount),
                           None, l2, c1) }
            ELSE SignAndSend(from_io(inputs, outputs),
                             [l2 EXCEPT !.outputs = Some(outputs)], c1, broadcast)
    ELSE IF Get(amount) >= txout_value
    THEN LET additional_input_fee ==
                 IF tx_fee = None
                 THEN fee_for_size(relayfee, fee_per_kb, estimated_input_size(claim_utxo))
                 ELSE 0
             get_inputs_for_amount ==
                 inputs_for_amount(Get(amount), txout_value, additional_input_fee)
             dummy_outputs == <<upd(get_inputs_for_amount)>>
             l2 == [l1 EXCEPT !.dummy_outputs = Some(dummy_outputs),
                              !.additional_input_fee = Some(additional_input_fee),
                              !.get_inputs_for_amount = Some(get_inputs_for_amount)]
             c2 == c1 \o <<"get_spendable_coins", "make_unsigned_transaction">>
             funded == make_unsigned_transaction(coins, dummy_outputs, tx_fee, change_addr, None)
         IN IF funded = {}
            THEN not_enough_funds(l2, c2)
            ELSE UNION { LET outputs == merged_outputs(upd(Get(amount)), dummy_tx)
                         IN SignAndSend(from_io(inputs \o dummy_tx.inputs, outputs),
                                        [l2 EXCEPT !.dummy_tx = Some(dummy_tx),
                                                   !.outputs = Some(outputs)],
                                        c2, broadcast)
                         : dummy_tx \in funded }
    ELSE LET dummy_outputs == <<upd(Get(amount)),
                                Output(TYPE_ADDRESS, NoPayload, change_addr,
                                       txout_value - Get(amount))>>
             fee == calculate_fee(inputs, dummy_outputs, tx_fee)
             l2 == [l1 EXCEPT !.dummy_outputs = Some(dummy_outputs), !.fee = Some(fee)]
             outputs == <<upd(Get(amount)),
                          Output(TYPE_ADDRESS, NoPayload, change_addr,
                                 change_amount(txout_value, Get(amount), fee))>>
         IN IF fee_exceeds_change(fee, txout_value, Get(amount))
            THEN { Outcome(Fail(FeeExceedsChange),
                           None, l2, c1) }
            ELSE SignAndSend(from_io(inputs, outputs),
                             [l2 EXCEPT !.outputs = Some(outputs)], c1, broadcast)

AbandonOutcomes(claim_utxo, broadcast, return_addr_arg, tx_fee_arg) ==
    LET return_addr == IF return_addr_arg = None
                       THEN ReceivingAddr(n_receiving + 1) ELSE Get(return_addr_arg)
        c0 == NewAddressCalls(return_addr_arg, Some(ExternalAddr))
        tx_fee == ConvertOpt(tx_fee_arg)
        l1 == [NoLocals EXCEPT !.tx_fee = tx_fee]
        c1 == Append(c0, "get_spendable_claimtrietx_coin")
        inputs == <<claim_utxo>>
        txout_value == claim_utxo.value
        dummy_outputs == <<Output(TYPE_ADDRESS, NoPayload, return_addr, txout_value)>>
        fee == calculate_fee(inputs, dummy_outputs, tx_fee)
        l2 == [l1 EXCEPT !.dummy_outputs = Some(dummy_outputs), !.fee = Some(fee)]
        return_value == txout_value - fee
        outputs == <<Output(TYPE_ADDRESS, NoPayload, return_addr, return_value)>>
    IN
    IF tx_fee # None /\ Get(tx_fee) < 0
    THEN { Outcome(Fail(NegativeFee), None, l1, c0) }
    ELSE IF fee_exceeds_abandon(fee, txout_value)
    THEN { Outcome(Fail(FeeExceedsAbandon), None, l2, c1) }
    ELSE SignAndSend(from_io(inputs, outputs),
                     [l2 EXCEPT !.outputs = Some(outputs)], c1, broadcast)

\* the command returns: its outcome becomes the observable state
Return(m, a, o) ==
    /\ method' = m
    /\ args' = a
    /\ result' = Some(o.result)
    /\ tx' = o.tx
    /\ locals' = o.locals
    /\ calls' = o.calls

\* wallet.create_new_address() and wallet.create_new_address(for_change=True)
CreateAddresses(receiving, change) ==
    /\ receiving => n_receiving < MaxAddr
    /\ change => n_change < MaxAddr
    /\ n_receiving' = IF receiving THEN n_receiving + 1 ELSE n_receiving
    /\ n_change' = IF change THEN n_change + 1 ELSE n_change

update(claim_utxo, name, claim_id_hex, val, amount, broadcast, claim_addr, tx_fee, change_addr) ==
    /\ CreateAddresses(claim_addr = None, change_addr = None)
    /\ \E o \in UpdateOutcomes(claim_utxo, name, claim_id_hex, val, amount, broadcast,
                               claim_addr, tx_fee, change_addr) :
           Return("update",
                  [claim_utxo |-> claim_utxo, name |-> name, claim_id |-> claim_id_hex,
                   val |-> val, amount |-> amount, broadcast |-> broadcast,
                   claim_addr |-> claim_addr, tx_fee |-> tx_fee,
                   change_addr |-> change_addr], o)
    /\ UNCHANGED <<wallet_vars, commands_vars>>

abandon(claim_utxo, broadcast, return_addr, tx_fee) ==
    /\ CreateAddresses(return_addr = None, FALSE)
    /\ \E o \in AbandonOutcomes(claim_utxo, broadcast, return_addr, tx_fee) :
           Return("abandon",
                  [claim_utxo |-> claim_utxo, broadcast |-> broadcast,
                   return_addr |-> return_addr, tx_fee |-> tx_fee], o)
    /\ UNCHANGED <<wallet_vars, commands_vars>>

\* the caller takes the result; the per-call transaction is discarded
Collect ==
    /\ method # "idle"
    /\ method' = "idle"
    /\ args' = None
    /\ result' = None
    /\ tx' = None
    /\ locals' = NoLocals
    /\ calls' = <<>>
    /\ UNCHANGED <<wallet_vars, commands_vars, n_receiving, n_change>>


\* lines 902-912 and 960-970: the wallet funds the outputs, then sign and send
FundOutcomes(outputs, tx_fee, change_addr, l1, c0, broadcast) ==
    LET l2 == [l1 EXCEPT !.outputs = Some(outputs)]
        c1 == c0 \o <<"get_spendable_coins", "make_unsigned_transaction">>
        funded == make_unsigned_transaction(coins, outputs, tx_fee, change_addr, None)
    IN IF funded = {}
       THEN not_enough_funds(l2, c1)
       ELSE UNION { SignAndSend(t, l2, c1, broadcast) : t \in funded }

ClaimOutcomes(name, val, amount_arg, broadcast, claim_addr_arg, tx_fee_arg, change_addr_arg) ==
    LET claim_addr == IF claim_addr_arg = None
                      THEN ReceivingAddr(n_receiving + 1) ELSE Get(claim_addr_arg)
        change_addr == IF change_addr_arg = None
                       THEN ChangeAddr(n_change + 1) ELSE Get(change_addr_arg)
        c0 == NewAddressCalls(claim_addr_arg, change_addr_arg)
        amount == IntCoin(amount_arg)
        tx_fee == ConvertOpt(tx_fee_arg)
        l0 == [NoLocals EXCEPT !.amount = Some(amount)]
        l1 == [l0 EXCEPT !.tx_fee = tx_fee]
        outputs == claim_outputs(name, val, claim_addr, amount)
    IN
    IF amount <= 0
    THEN { Outcome(Fail(AmountNotPositive), None, l0, c0) }
    ELSE IF tx_fee # None /\ Get(tx_fee) < 0
    THEN { Outcome(Fail(NegativeFee), None, l1, c0) }
    ELSE FundOutcomes(outputs, tx_fee, change_addr, l1, c0, broadcast)

SupportOutcomes(name, claim_id_hex, amount_arg, broadcast, claim_addr_arg, tx_fee_arg, change_addr_arg) ==
    LET claim_addr == IF claim_addr_arg = None
                      THEN ReceivingAddr(n_receiving + 1) ELSE Get(claim_addr_arg)
        change_addr == IF change_addr_arg = None
                       THEN ChangeAddr(n_change + 1) ELSE Get(change_addr_arg)
        c0 == NewAddressCalls(claim_addr_arg, change_addr_arg)
        claim_id == decode_claim_id_hex(claim_id_hex)
        amount == IntCoin(amount_arg)
        tx_fee == ConvertOpt(tx_fee_arg)
        l0 == [NoLocals EXCEPT !.amount = Some(amount)]
        l1 == [l0 EXCEPT !.tx_fee = tx_fee]
        outputs == support_outputs(name, claim_id, claim_addr, amount)
    IN
    IF amount <= 0
    THEN { Outcome(Fail(AmountNotPositive), None, l0, c0) }
    ELSE IF tx_fee # None /\ Get(tx_fee) < 0
    THEN { Outcome(Fail(NegativeFee), None, l1, c0) }
    ELSE FundOutcomes(outputs, tx_fee, change_addr, l1, c0, broadcast)

claim(name, val, amount, broadcast, claim_addr, tx_fee, change_addr) ==
    /\ CreateAddresses(claim_addr = None, change_addr = None)
    /\ \E o \in ClaimOutcomes(name, val, amount, broadcast, claim_addr, tx_fee,
                              change_addr) :
           Return("claim",
                  [name |-> name, val |-> val, amount |-> amount, broadcast |-> broadcast,
                   claim_addr |-> claim_addr, tx_fee |-> tx_fee,
                   change_addr |-> change_addr], o)
    /\ UNCHANGED <<wallet_vars, commands_vars>>

support(name, claim_id_hex, amount, broadcast, claim_addr, tx_fee, change_addr) ==
    /\ CreateAddresses(claim_addr = None, change_addr = None)
    /\ \E o \in SupportOutcomes(name, claim_id_hex, amount, broadcast, claim_addr, tx_fee,
                                change_addr) :
           Return("support",
                  [name |-> name, claim_id |-> claim_id_hex, amount |-> amount,
                   broadcast |-> broadcast, claim_addr |-> claim_addr, tx_fee |-> tx_fee,
                   change_addr |-> change_addr], o)
    /\ UNCHANGED <<wallet_vars, commands_vars>>

(* ------------------------------ _mktx ---------------------------------- *)
\* an amount of the outputs argument: '!' or a decimal number
Bang == [bang |-> TRUE, h |-> 0]
Amt(h) == [bang |-> FALSE, h |-> h]

MktxOutput_cumulative(address, amount, claim_name, claim_val, claim_id, abandon_txid) ==
    Output(BitOr(BitOr(TYPE_ADDRESS,
                       IF claim_name # None /\ claim_val # None /\ claim_id # None
                          /\ abandon_txid # None THEN TYPE_UPDATE ELSE {}),
                 BitOr(IF claim_name # None /\ claim_id # None THEN TYPE_SUPPORT ELSE {},
                       IF claim_name # None /\ claim_val # None THEN TYPE_CLAIM ELSE {})),
           [name |-> claim_name, claim_id |-> claim_id, value |-> claim_val],
           address, amount)

\* lines 470-484: the type and val of a final output
MktxOutput(address, amount, claim_name, claim_val, claim_id, abandon_txid) ==
    IF claim_name # None /\ claim_val # None /\ claim_id # None /\ abandon_txid # None
    THEN Output(BitOr(TYPE_ADDRESS, TYPE_UPDATE),
                [name |-> claim_name, claim_id |-> claim_id, value |-> claim_val],
                address, amount)
    ELSE IF claim_name # None /\ claim_id # None
    THEN Output(BitOr(TYPE_ADDRESS, TYPE_SUPPORT),
                [name |-> claim_name, claim_id |-> claim_id, value |-> None],
                address, amount)
    ELSE IF claim_name # None /\ claim_val # None
    THEN Output(BitOr(TYPE_ADDRESS, TYPE_CLAIM),
                [name |-> claim_name, claim_id |-> None, value |-> claim_val],
                address, amount)
    ELSE Output(TYPE_ADDRESS, NoPayload, address, amount)

\* get_spendable_coins(domain, abandon_txid): the claim-trie coin of abandon_txid
\* is spendable next to the ordinary coins
SpendableCoins(abandon_txid) ==
    LET RECURSIVE AsSeq(_)
        AsSeq(S) == IF S = {} THEN <<>>
                    ELSE LET u == CHOOSE x \in S : \A y \in S : x.txid <= y.txid
                         IN <<u>> \o AsSeq(S \ {u})
    IN coins \o AsSeq({ u \in claimtrie_coins : abandon_txid = Some(u.txid) })

MktxOutcomes(outputs, fee_arg, change_addr_arg, unsigned, claim_name, claim_val, abandon_txid, claim_id) ==
    LET fee0 == ConvertOpt(fee_arg)
        family == \/ claim_name # None /\ claim_id # None
                  \/ claim_name # None /\ claim_val # None
        change_addr == IF change_addr_arg = None
                       THEN ChangeAddr(n_change) ELSE Get(change_addr_arg)
        \* the first output whose handling asserts len(outputs) == 1
        asserts == \E k \in 1..Len(outputs) : outputs[k].amount.bang \/ family
        first == outputs[1]
        inputs == coins
        dummy_outputs == <<Output(TYPE_ADDRESS, NoPayload, first.address, SumValues(inputs))>>
        fee == IF first.amount.bang /\ fee0 = None
               THEN Some(fee_for_size(relayfee, fee_per_kb,
                                      estimated_size(from_io(inputs, dummy_outputs))))
               ELSE fee0
        amount(k) == IF outputs[k].amount.bang
                     THEN SumValues(inputs) - Get(fee)
                     ELSE IntCoin(outputs[k].amount.h)
        final_outputs == [k \in 1..Len(outputs) |->
                             MktxOutput(outputs[k].address, amount(k), claim_name,
                                        claim_val, claim_id, abandon_txid)]
        l1 == [NoLocals EXCEPT !.tx_fee = fee, !.outputs = Some(final_outputs)]
        c0 == IF first.amount.bang THEN <<"get_spendable_coins">> ELSE <<>>
        c1 == c0 \o <<"get_spendable_coins", "make_unsigned_transaction">>
        funded == make_unsigned_transaction(SpendableCoins(abandon_txid), final_outputs,
                                            fee, change_addr, abandon_txid)
    IN
    IF Len(outputs) # 1 /\ asserts
    THEN { Outcome(Raise("AssertionError"), None, NoLocals, <<>>) }
    ELSE IF funded = {}
    THEN { Outcome(Raise("NotEnoughFunds"), None, l1, c1) }
    ELSE { Outcome(Ok, Some(t), l1,
                   IF unsigned THEN c1 ELSE Append(c1, "sign_transaction")) : t \in funded }

mktx(outputs, fee, change_addr, unsigned, claim_name, claim_val, abandon_txid, claim_id) ==
    /\ \E o \in MktxOutcomes(outputs, fee, change_addr, unsigned, claim_name, claim_val,
                             abandon_txid, claim_id) :
           Return("_mktx",
                  [outputs |-> outputs, fee |-> fee, change_addr |-> change_addr,
                   unsigned |-> unsigned, claim_name |-> claim_name,
                   claim_val |-> claim_val, abandon_txid |-> abandon_txid,
                   claim_id |-> claim_id], o)
    /\ UNCHANGED <<wallet_vars, commands_vars, n_receiving, n_change>>

(* --------------------------- input sets -------------------------------- *)
Names == {"lbry"}
ClaimIdsHex == {<<1, 2>>}
Values == {[data |-> "v", size |-> 10], [data |-> "w", size |-> 1000]}
AmountArgs == { h \in -1..MaxAmountInput : TRUE }
OptAmountArgs == {None} \cup { Some(h) : h \in AmountArgs }
FeeArgs == {None} \cup { Some(h) : h \in -2..MaxFeeInput }
AddrArgs == {None, Some(ExternalAddr)}

MktxAmounts == {Bang} \cup { Amt(2 * k) : k \in -1..MaxMktxInput }
MktxOutputs ==
         { <<[address |-> ExternalAddr, amount |-> a]>> : a \in MktxAmounts }
    \cup { <<[address |-> ExternalAddr, amount |-> a],
             [address |-> ExternalAddr, amount |-> Amt(2)]>> : a \in {Bang, Amt(2)} }
MktxFeeArgs == {None} \cup { Some(2 * k) : k \in -1..(MaxMktxInput + 1) }
OptOf(S) == {None} \cup { Some(x) : x \in S }

\* spendable coins of the values in D, one each, smallest first
CoinsOf(D) ==
    LET RECURSIVE AsSeq(_)
        AsSeq(S) == IF S = {} THEN <<>>
                    ELSE LET d == CHOOSE x \in S : \A y \in S : x <= y
                         IN <<Utxo(d, d, FALSE)>> \o AsSeq(S \ {d})
    IN AsSeq(D)

\* the transactions of the wallet's claim-trie UTXOs
ClaimTxid(v) == 10 + v
SupportTxid == 10

Init ==
    /\ \E n \in 0..MaxCoinValue : coins = CoinsOf(1..n)
    /\ claimtrie_coins = { Utxo(ClaimTxid(v), v, FALSE) : v \in 1..MaxClaimValue }
                          \cup {Utxo(SupportTxid, 1, TRUE)}
    /\ relayfee \in 0..MaxRelayFee
    /\ fee_per_kb \in 1..MaxFeePerKb
    /\ use_encryption = FALSE
    /\ password = None
    /\ callback = None
    /\ n_receiving = 0
    /\ n_change = 0
    /\ method = "idle"
    /\ args = None
    /\ result = None
    /\ tx = None
    /\ locals = NoLocals
    /\ calls = <<>>

CallClaim ==
    /\ method = "idle"
    /\ \E name \in Names, val \in Values, amount \in AmountArgs, broadcast \in BOOLEAN,
          claim_addr \in AddrArgs, tx_fee \in FeeArgs, change_addr \in AddrArgs :
           claim(name, val, amount, broadcast, claim_addr, tx_fee, change_addr)

CallSupport ==
    /\ method = "idle"
    /\ \E name \in Names, cid \in ClaimIdsHex, amount \in AmountArgs, broadcast \in BOOLEAN,
          claim_addr \in AddrArgs, tx_fee \in FeeArgs, change_addr \in AddrArgs :
           support(name, cid, amount, broadcast, claim_addr, tx_fee, change_addr)

CallUpdate ==
    /\ method = "idle"
    /\ \E u \in claimtrie_coins, name \in Names, cid \in ClaimIdsHex, val \in Values,
          amount \in OptAmountArgs, broadcast \in BOOLEAN, claim_addr \in AddrArgs,
          tx_fee \in FeeArgs, change_addr \in AddrArgs :
           update(u, name, cid, val, amount, broadcast, claim_addr, tx_fee, change_addr)

CallAbandon ==
    /\ method = "idle"
    /\ \E u \in claimtrie_coins, broadcast \in BOOLEAN, return_addr \in AddrArgs,
          tx_fee \in FeeArgs :
           abandon(u, broadcast, return_addr, tx_fee)

CallMktx ==
    /\ method = "idle"
    /\ \E outputs \in MktxOutputs, fee \in MktxFeeArgs, change_addr \in AddrArgs,
          unsigned \in BOOLEAN, claim_name \in OptOf(Names),
          claim_val \in OptOf({[data |-> "v", size |-> 10]}),
          abandon_txid \in OptOf({ClaimTxid(1)}), claim_id \in OptOf(ClaimIdsHex) :
           mktx(outputs, fee, change_addr, unsigned, claim_name, claim_val,
                abandon_txid, claim_id)


\* one command at a time
NextUpdate == CallUpdate \/ Collect
SpecUpdate == Init /\ [][NextUpdate]_vars

NextAbandon == CallAbandon \/ Collect
SpecAbandon == Init /\ [][NextAbandon]_vars

NextClaim == CallClaim \/ CallSupport \/ Collect
SpecClaim == Init /\ [][NextClaim]_vars

\* the four claim commands, on the wallets whose fee rates are the largest
InitIntents == Init /\ relayfee = MaxRelayFee /\ fee_per_kb = MaxFeePerKb

NextIntents == CallClaim \/ CallSupport \/ CallUpdate \/ CallAbandon \/ Collect
SpecIntents == InitIntents /\ [][NextIntents]_vars

\* the commands that build transactions
NextBuilders ==
    CallClaim \/ CallSupport \/ CallUpdate \/ CallAbandon \/ CallMktx \/ Collect
SpecBuilders == InitIntents /\ [][NextBuilders]_vars

(* ----------------- the fee estimator on its own ------------------------ *)
MaxProbeRate == 3      \* largest relay floor and per-kB rate tried
MaxProbeKb == 3        \* sizes tried reach MaxProbeKb kilobytes and a byte

ProbeSizes == { k * KB + d : k \in 0..MaxProbeKb, d \in {0, 1, KB - 1} }

InitFee ==
    /\ coins = <<>>
    /\ claimtrie_coins = {}
    /\ relayfee = 0
    /\ fee_per_kb = 0
    /\ use_encryption = FALSE
    /\ password = None
    /\ callback = None
    /\ n_receiving = 0
    /\ n_change = 0
    /\ method = "idle"
    /\ args = None
    /\ result = None
    /\ tx = None
    /\ locals = NoLocals
    /\ calls = <<>>

\* Transaction.fee_for_size(relay_fee, fee_per_kb, size), one evaluation after another
CallFeeForSize ==
    \E relay_fee \in 0..MaxProbeRate, per_kb \in 0..MaxProbeRate, size \in ProbeSizes :
        /\ method' = "fee_for_size"
        /\ args' = [relay_fee |-> relay_fee, per_kb |-> per_kb, size |-> size]
        /\ result' = Some(fee_for_size(relay_fee, per_kb, size))
        /\ UNCHANGED <<wallet_vars, commands_vars, n_receiving, n_change, tx, locals, calls>>

NextFee == CallFeeForSize

SpecFee == InitFee /\ [][NextFee]_vars

(* ======================= proof verification ============================ *)
MaxSupports == 2        \* longest supports list of a response
MaxSupportAmount == 2   \* largest amount of a support, in subunits
MaxNOut == 2            \* largest output index a proof names

\* ---- raw transactions: a sequence of bytes
\* <<lockTime, output count, then per output: value, opcode, name, claim id, claim value>>
OP_DUP == 0
OP_CLAIM_NAME == 1
OP_SUPPORT_CLAIM == 2
OP_UPDATE_CLAIM == 3
OutputBytes == 5
HeaderBytes == 2
HashModulus == 251

\* lbrycrd.Hash(raw)[::-1].encode('hex'): a digest of every byte and its position
Hash(raw) ==
    LET F[k \in 0..Len(raw)] ==
            IF k = 0 THEN 7 ELSE (F[k - 1] * 31 + raw[k] + 1) % HashModulus
    IN F[Len(raw)]

\* transaction.deserialize: None when the bytes end before the outputs they announce
deserialize_transaction(raw) ==
    IF Len(raw) < HeaderBytes \/ Len(raw) < HeaderBytes + OutputBytes * raw[2]
    THEN None
    ELSE Some([lockTime |-> raw[1],
               outputs |-> [k \in 1..raw[2] |->
                   LET at == HeaderBytes + OutputBytes * (k - 1)
                   IN [value |-> raw[at + 1],
                       scriptPubKey |-> <<raw[at + 2], raw[at + 3], raw[at + 4], raw[at + 5]>>]]])

\* transaction.script_GetOp: the operations of a script, in order
script_GetOp(scriptPubKey) == scriptPubKey

\* the name a name byte of a script spells
ProofNames == {"lbry", "lbrz"}
NameOfByte(b) == IF b = 1 THEN "lbry" ELSE IF b = 2 THEN "lbrz" ELSE "?"

\* transaction.decode_claim_script: None (False) for a script that is not of the
\* claim family, else the payload: (name, value), (name, claim_id) or
\* (name, claim_id, value)
decode_claim_script(decoded_script) ==
    LET op == decoded_script[1]
        name == NameOfByte(decoded_script[2])
    IN IF op = OP_CLAIM_NAME
       THEN Some([name |-> Some(name), claim_id |-> None, value |-> Some(decoded_script[4])])
       ELSE IF op = OP_SUPPORT_CLAIM
       THEN Some([name |-> Some(name), claim_id |-> Some(decoded_script[3]), value |-> None])
       ELSE IF op = OP_UPDATE_CLAIM
       THEN Some([name |-> Some(name), claim_id |-> Some(decoded_script[3]),
                  value |-> Some(decoded_script[4])])
       ELSE None

\* claims.verify_proof(proof, claim_trie_root, name): TRUE, or FALSE for
\* InvalidProofError; the evidence of a proof holds for one root and one name
verify_proof(proof, claim_trie_root, name) ==
    proof.evidence = [root |-> claim_trie_root, name |-> name]

\* str(Decimal(amount)/COIN): the decimal number of base units, sign, integer
\* part and the eight decimals
DecimalOverCoin(amount) ==
    LET a == IF amount < 0 THEN -amount ELSE amount
    IN [negative |-> amount < 0, units |-> a \div COIN, decimals |-> a % COIN]

\* the subunits a decimal number of base units stands for
SubunitsOf(d) ==
    LET a == d.units * COIN + d.decimals IN IF d.negative THEN -a ELSE a

\* ---- results of the verifier
NoResult == [error |-> None, record |-> None, raised |-> None]
ProofError(msg, detail) == [NoResult EXCEPT !.error = Some([msg |-> msg, detail |-> detail])]
ProofRaise(exception) == [NoResult EXCEPT !.raised = Some(exception)]

ProofMissing == "proof not in result"
ProofInvalid == "Proof was invalid"
NameNotClaimed == "name is not claimed"
MissingTransaction == "didn't receive a transaction with the proof"
HashMismatch == "computed txid did not match given transaction: %s vs %s"
IndexOutOfRange == "invalid nOut: %d (let(outputs): %d"
NotAClaimScript == "failed to decode as claim script"
NameMismatch == "name in proof did not match requested name"

\* what a call of the verifier leaves: its return value, the collaborator
\* calls and reads it made, and the response as it is afterwards
ProofOutcome(r, c, response) == [result |-> r, calls |-> c, response |-> response]

\* line 712: _build_response
build_response_stateful(value, txid, n, amount, height) ==
    [value |-> value, txid |-> txid, nout |-> n,
     amount |-> DecimalOverCoin(amount), height |-> height + Len(calls)]

build_response(value, txid, n, amount, height) ==
    [value |-> value, txid |-> txid, nout |-> n,
     amount |-> DecimalOverCoin(amount), height |-> height]

\* list[i] of Python: a negative index counts from the end
ListAt(list, i) == IF i >= 0 THEN list[i + 1] ELSE list[Len(list) + i + 1]

\* line 721: sum(samount for stxid, sn, samount in result['supports'])
RECURSIVE sum_supports(_)
sum_supports(supports) ==
    IF supports = <<>> THEN 0 ELSE Head(supports)[3] + sum_supports(Tail(supports))

\* line 722: 'txhash' in result['proof'] and 'nOut' in result['proof']
has_txhash_and_nOut(proof) == proof.txhash # None /\ proof.nOut # None

\* line 727: result['proof']['txhash'] == computed_txhash
txhash_matches(txhash, computed_txhash) == txhash = computed_txhash

nOut_in_range_unsigned(nOut, n_outputs) == nOut < n_outputs

\* line 728: 0 <= nOut < len(tx['outputs'])
nOut_in_range(nOut, n_outputs) == 0 <= nOut /\ nOut < n_outputs

effective_amount_no_supports(amount, support_amount) == amount

\* line 731: effective_amount = amount + support_amount
effective_amount(amount, support_amount) == amount + support_amount

claim_height_plain(lockTime) == lockTime

\* line 732: h = tx['lockTime'] + 1
claim_height(lockTime) == lockTime + 1

\* lines 720-747: <<return value, calls and reads>>
parse_proof_result(name, response) ==
    LET support_amount == sum_supports(response.supports)
        proof == Get(response.proof)
    IN
    \* line 721: result['supports'] of a response without that key
    IF ~response.has_supports
    THEN <<ProofRaise("KeyError"), <<>>>>
    ELSE IF ~has_txhash_and_nOut(proof)
    THEN <<ProofError(NameNotClaimed, <<>>), <<>>>>
    ELSE IF response.transaction = None
    THEN <<ProofError(MissingTransaction, <<>>), <<>>>>
    ELSE
    LET raw == Get(response.transaction)
        computed_txhash == Hash(raw)
        parsed == deserialize_transaction(raw)
        nOut == Get(proof.nOut)
        c1 == <<"Hash", "deserialize_transaction">>
    IN
    IF parsed = None
    THEN <<ProofRaise("SerializationError"), c1>>
    ELSE
    LET txn == Get(parsed)
        n_outputs == Len(txn.outputs)
    IN
    IF ~txhash_matches(Get(proof.txhash), computed_txhash)
    THEN <<ProofError(HashMismatch, <<computed_txhash, Get(proof.txhash)>>), c1>>
    ELSE IF ~nOut_in_range(nOut, n_outputs)
    THEN <<ProofError(IndexOutOfRange, <<nOut, n_outputs>>), c1>>
    ELSE
    LET output == ListAt(txn.outputs, nOut)
        scriptPubKey == output.scriptPubKey
        amount == output.value
        h == claim_height(txn.lockTime)
        decode_out == decode_claim_script(script_GetOp(scriptPubKey))
        c2 == c1 \o <<"read_output", "script_GetOp", "decode_claim_script">>
    IN
    IF decode_out = None
    THEN <<ProofError(NotAClaimScript, <<>>), c2>>
    ELSE
    LET n == Get(decode_out)
    IN
    \* line 738: n.value, which a (name, claim_id) payload does not have
    IF n.value = None
    THEN <<ProofRaise("AttributeError"), c2>>
    ELSE IF Get(n.name) = name
    THEN <<[NoResult EXCEPT !.record =
              Some(build_response(Get(n.value), computed_txhash, nOut,
                                  effective_amount(amount, support_amount), h))], c2>>
    ELSE <<ProofError(NameMismatch, <<>>), c2>>

proof_not_in_result_checked(response) ==
    ProofOutcome(ProofError(ProofMissing, <<>>), <<"verify_proof">>, response)

\* lines 756-757: else: return {'error': "proof not in result"}
proof_not_in_result(response) == ProofOutcome(ProofError(ProofMissing, <<>>), <<>>, response)

\* lines 750-757: Commands._verify_proof
Commands_verify_proof(name, claim_trie_root, response) ==
    IF response.proof # None
    THEN IF ~verify_proof(Get(response.proof), claim_trie_root, name)
         THEN ProofOutcome(ProofError(ProofInvalid, <<>>), <<"verify_proof">>, response)
         ELSE LET p == parse_proof_result(name, response)
              IN ProofOutcome(p[1], <<"verify_proof">> \o p[2], response)
    ELSE proof_not_in_result(response)

CallVerifyProofOf(name, claim_trie_root, response) ==
    LET o == Commands_verify_proof(name, claim_trie_root, response)
    IN /\ method' = "_verify_proof"
       /\ args' = [name |-> name, claim_trie_root |-> claim_trie_root,
                   result |-> response, result_after |-> o.response]
       /\ result' = Some(o.result)
       /\ calls' = o.calls
       /\ tx' = None
       /\ locals' = NoLocals
       /\ UNCHANGED <<wallet_vars, commands_vars, n_receiving, n_change>>

\* ---- inputs of the verifier
Roots == {1, 2}
BaseTx(op, nm) == <<5, 2, 3, op, nm, 4, 7, 1, OP_DUP, 0, 0, 0>>
Tamper(raw, p) == [raw EXCEPT ![p] = raw[p] + 1]
RawTxs ==
         { BaseTx(op, nm) : op \in {OP_CLAIM_NAME, OP_SUPPORT_CLAIM, OP_UPDATE_CLAIM},
                            nm \in {1, 2} }
    \cup { Tamper(BaseTx(OP_CLAIM_NAME, 1), p) : p \in 1..Len(BaseTx(OP_CLAIM_NAME, 1)) }

SupportTuples == { <<9, 0, a>> : a \in 0..MaxSupportAmount }
SupportLists == UNION { [1..k -> SupportTuples] : k \in 0..MaxSupports }

\* the proofs a server may send next to transaction t
ProofsFor(t) ==
    [evidence : [root : Roots, name : ProofNames],
     txhash : {None, Some(Hash(BaseTx(OP_CLAIM_NAME, 1)))}
              \cup (IF t = None THEN {} ELSE {Some(Hash(Get(t)))}),
     nOut : {None} \cup { Some(k) : k \in -1..MaxNOut }]

\* a response has its supports list, or lacks the key
Responses ==
    UNION { [proof : {None} \cup { Some(p) : p \in ProofsFor(t) },
             transaction : {t},
             has_supports : {TRUE},
             supports : SupportLists]
            \cup
            [proof : {None} \cup { Some(p) : p \in ProofsFor(t) },
             transaction : {t},
             has_supports : {FALSE},
             supports : {<<>>}] : t \in OptOf(RawTxs) }

CallVerifyProof ==
    /\ method = "idle"
    /\ \E name \in ProofNames, claim_trie_root \in Roots, response \in Responses :
           CallVerifyProofOf(name, claim_trie_root, response)

NextProof == CallVerifyProof \/ Collect
SpecProof == InitFee /\ [][NextProof]_vars

\* every command
(* ------------------------------- _run ---------------------------------- *)
\* 'c' in s, for a flag string s given as the sequence of its characters
In(c, s) == \E k \in 1..Len(s) : s[k] = c

\* lines 101-105: Command.__init__(func, s)
Command(name, s) ==
    [name |-> name, requires_network |-> In("n", s), requires_wallet |-> In("w", s),
     requires_password |-> In("p", s)]

\* lines 119-123: the commands the decorator registers, with their flag strings
\* (version: line 380, payto: line 495, abandon: line 1114)
known_commands ==
    [version |-> Command("version", <<>>),
     payto |-> Command("payto", <<"w", "p">>),
     abandon |-> Command("abandon", <<"w", "p", "n">>)]

LBRYUM_VERSION == "lbryum version"
PasswordEntered == "entered"

\* a returned value that is not a success dict
Value(v) == [value |-> v, raised |-> FALSE]

password_asked_unencrypted(cmd) == cmd.requires_password

\* line 145: if cmd.requires_password and self.wallet.use_encryption
password_asked(cmd) == cmd.requires_password /\ use_encryption

\* lines 143-152: _run(method, args, password_getter), o being an outcome of
\* f(*args); an exception of f leaves _run at line 148
run(m, a, o) ==
    LET cmd == known_commands[m]
        asked == password_asked(cmd)
        c0 == IF asked THEN <<"password_getter">> ELSE <<>>
        c1 == c0 \o o.calls
    IN /\ method' = "_run"
       /\ args' = [method |-> m, args |-> a]
       /\ result' = Some(o.result)
       /\ tx' = o.tx
       /\ locals' = o.locals
       /\ IF o.result.raised
          THEN /\ password' = IF asked THEN Some(PasswordEntered) ELSE password
               /\ calls' = c1
          ELSE /\ password' = None
               /\ calls' = IF callback # None THEN Append(c1, "callback") ELSE c1
       /\ UNCHANGED callback

\* lines 380-384: version
RunVersion ==
    /\ method = "idle"
    /\ run("version", <<>>, Outcome(Value(LBRYUM_VERSION), None, NoLocals, <<>>))
    /\ UNCHANGED <<wallet_vars, n_receiving, n_change>>

\* lines 495-500: payto, one recipient output and no claim-family field
RunPayto ==
    /\ method = "idle"
    /\ \E amount \in MktxAmounts, tx_fee \in MktxFeeArgs, change_addr \in AddrArgs,
          unsigned \in BOOLEAN :
           \E o \in MktxOutcomes(<<[address |-> ExternalAddr, amount |-> amount]>>, tx_fee,
                                  change_addr, unsigned, None, None, None, None) :
               run("payto",
                   [destination |-> ExternalAddr, amount |-> amount, tx_fee |-> tx_fee,
                    change_addr |-> change_addr, unsigned |-> unsigned], o)
    /\ UNCHANGED <<wallet_vars, n_receiving, n_change>>

\* lines 1114-1145: abandon
RunAbandon ==
    /\ method = "idle"
    /\ \E u \in claimtrie_coins, broadcast \in BOOLEAN, return_addr \in AddrArgs,
          tx_fee \in FeeArgs :
           /\ CreateAddresses(return_addr = None, FALSE)
           /\ \E o \in AbandonOutcomes(u, broadcast, return_addr, tx_fee) :
                  run("abandon",
                      [claim_utxo |-> u, broadcast |-> broadcast,
                       return_addr |-> return_addr, tx_fee |-> tx_fee], o)
    /\ UNCHANGED wallet_vars

\* Commands(config, wallet, network, callback, password) on a wallet that is
\* encrypted or not
InitRun ==
    /\ \E n \in 0..MaxCoinValue : coins = CoinsOf(1..n)
    /\ claimtrie_coins = { Utxo(ClaimTxid(v), v, FALSE) : v \in 1..MaxClaimValue }
                          \cup {Utxo(SupportTxid, 1, TRUE)}
    /\ relayfee = MaxRelayFee
    /\ fee_per_kb = MaxFeePerKb
    /\ use_encryption \in BOOLEAN
    /\ password \in {None, Some("given")}
    /\ callback \in {None, Some("callback")}
    /\ n_receiving = 0
    /\ n_change = 0
    /\ method = "idle"
    /\ args = None
    /\ result = None
    /\ tx = None
    /\ locals = NoLocals
    /\ calls = <<>>

NextRun == RunVersion \/ RunPayto \/ RunAbandon \/ Collect
SpecRun == InitRun /\ [][NextRun]_vars

Next ==
    \/ CallClaim
    \/ CallSupport
    \/ CallUpdate
    \/ CallAbandon
    \/ CallMktx
    \/ CallVerifyProof
    \/ RunVersion
    \/ RunPayto
    \/ RunAbandon
    \/ Collect

Spec == Init /\ [][Next]_vars

(* ============================ properties =============================== *)
UpdateType == {"ADDRESS", "UPDATE"}

Called(c) == \E k \in 1..Len(calls) : calls[k] = c

\* the converted tx_fee argument passes the check tx_fee >= 0
FeeArgValid(f) == f = None \/ IntCoin(Get(f)) >= 0

\* update reaches the amount branches: arguments valid, prior UTXO a claim
UpdateProceeds ==
    /\ method = "update"
    /\ args.amount = None \/ IntCoin(Get(args.amount)) > 0
    /\ FeeArgValid(args.tx_fee)
    /\ ~args.claim_utxo.is_support

\* the fee the estimator requires for transaction t, or the caller's override
RequiredFee(t, tx_fee_arg) ==
    IF tx_fee_arg = None
    THEN fee_for_size(relayfee, fee_per_kb, estimated_size(t))
    ELSE IntCoin(Get(tx_fee_arg))

UpdatePayload ==
    [name |-> Some(args.name), claim_id |-> Some(decode_claim_id_hex(args.claim_id)),
     value |-> Some(args.val)]

ClaimAddrUsed ==
    IF args.claim_addr = None THEN ReceivingAddr(n_receiving) ELSE Get(args.claim_addr)

ChangeAddrUsed ==
    IF args.change_addr = None THEN ChangeAddr(n_change) ELSE Get(args.change_addr)

\* the fee update computed or was given: the local fee, or in the branch
\* amount >= txout_value the fee of the wallet's draft plus additional_input_fee
UpdateFee ==
    IF locals.fee # None
    THEN Get(locals.fee)
    ELSE Get(locals.additional_input_fee)
         + RequiredFee(Get(locals.dummy_tx), args.tx_fee)

\* C1: every transaction update finalizes conserves value: the sum of its input
\* values is the sum of its output amounts plus the fee update computed or was
\* given, in each of the three amount branches.
C1_ValueConservation ==
    (method = "update" /\ tx # None) =>
        SumValues(Get(tx).inputs) = SumAmounts(Get(tx).outputs) + UpdateFee

C1_Witness ==
    /\ method = "update" /\ tx # None
    /\ locals.dummy_tx # None
    /\ Len(Get(tx).inputs) = 3
    /\ UpdateFee > 1

\* C2: update with amount unset: the fee comes from a draft whose only input
\* is the prior claim UTXO (or is the override); fee >= v fails with the
\* fee-exceeds-amount reason, otherwise the transaction has exactly one
\* output, Address|Update, of amount v - fee.
C2_UnsetAmount ==
    (UpdateProceeds /\ args.amount = None) =>
        /\ locals.fee # None
        /\ locals.dummy_outputs # None
        /\ LET v == args.claim_utxo.value
               fee == Get(locals.fee)
               draft == from_io(<<args.claim_utxo>>, Get(locals.dummy_outputs))
           IN /\ Len(draft.outputs) = 1
              /\ fee = RequiredFee(draft, args.tx_fee)
              /\ IF fee >= v
                 THEN result = Some(Fail(FeeExceedsAmount)) /\ tx = None
                 ELSE /\ tx # None
                      /\ Get(tx).inputs = <<args.claim_utxo>>
                      /\ Get(tx).outputs =
                           <<Output(UpdateType, UpdatePayload, ClaimAddrUsed, v - fee)>>

C2_Witness ==
    /\ UpdateProceeds /\ args.amount = None /\ args.tx_fee = None
    /\ tx # None
    /\ Get(locals.fee) = 1
    /\ Get(tx).outputs[1].amount = args.claim_utxo.value - 1

\* C3: update with 0 < a < v fails with the fee-exceeds-change reason exactly
\* when fee > v - a; otherwise the outputs are the Address|Update output at a
\* followed by a plain Address change output at v - a - fee.
C3_LowerAmount ==
    (/\ UpdateProceeds /\ args.amount # None
     /\ IntCoin(Get(args.amount)) < args.claim_utxo.value) =>
        /\ locals.fee # None
        /\ LET v == args.claim_utxo.value
               a == IntCoin(Get(args.amount))
               fee == Get(locals.fee)
           IN /\ (result = Some(Fail(FeeExceedsChange))) <=> (fee > v - a)
              /\ fee > v - a => tx = None
              /\ fee <= v - a =>
                    /\ tx # None
                    /\ Get(tx).outputs =
                         <<Output(UpdateType, UpdatePayload, ClaimAddrUsed, a),
                           Output(TYPE_ADDRESS, NoPayload, ChangeAddrUsed, v - a - fee)>>

C3_Witness ==
    /\ UpdateProceeds /\ args.amount # None
    /\ IntCoin(Get(args.amount)) < args.claim_utxo.value
    /\ tx # None
    /\ Get(locals.fee) > 0
    /\ Get(tx).outputs[2].amount = 0

\* C4: update with a >= v asks the wallet to fund a draft of exactly a - v plus
\* the marginal fee of the prior claim input (0 under a fee override); the
\* final inputs are the prior claim UTXO then the draft's inputs, the final
\* outputs the Address|Update output at a then the draft's non-update outputs.
C4_HigherAmount ==
    (/\ UpdateProceeds /\ args.amount # None
     /\ IntCoin(Get(args.amount)) >= args.claim_utxo.value) =>
        LET v == args.claim_utxo.value
            a == IntCoin(Get(args.amount))
            marginal == IF args.tx_fee = None
                        THEN fee_for_size(relayfee, fee_per_kb,
                                          estimated_input_size(args.claim_utxo))
                        ELSE 0
        IN /\ Called("make_unsigned_transaction")
           /\ locals.dummy_outputs =
                Some(<<Output(UpdateType, UpdatePayload, ClaimAddrUsed, a - v + marginal)>>)
           /\ tx # None =>
                LET draft == Get(locals.dummy_tx)
                    final == Get(tx)
                IN /\ final.inputs = <<args.claim_utxo>> \o draft.inputs
                   /\ final.outputs[1] =
                        Output(UpdateType, UpdatePayload, ClaimAddrUsed, a)
                   /\ Len(final.outputs) = Len(draft.outputs)
                   /\ \A k \in 2..Len(final.outputs) :
                        /\ final.outputs[k] = draft.outputs[k]
                        /\ ~BitAnd(final.outputs[k].type, TYPE_UPDATE)

C4_Witness ==
    /\ UpdateProceeds /\ args.amount # None /\ args.tx_fee = None
    /\ IntCoin(Get(args.amount)) > args.claim_utxo.value
    /\ tx # None
    /\ Get(locals.additional_input_fee) > 0
    /\ Len(Get(tx).outputs) = 2

\* C5 as stated: an update of a support-type UTXO is rejected with the
\* cannot-update-support reason for every amount and fee setting.
C5_AnySetting ==
    (method = "update" /\ args.claim_utxo.is_support) =>
        result = Some(Fail(CannotUpdateSupport))

\* C5: an update of a support-type UTXO builds, signs and broadcasts nothing;
\* it is rejected with the cannot-update-support reason whenever the amount is
\* unset or positive and the fee override is unset or not negative.
C5_SupportRejected ==
    (method = "update" /\ args.claim_utxo.is_support) =>
        /\ tx = None
        /\ ~Get(result).success
        /\ ~Called("make_unsigned_transaction")
        /\ ~Called("sign_transaction")
        /\ ~Called("sendtx")
        /\ (/\ args.amount = None \/ IntCoin(Get(args.amount)) > 0
            /\ FeeArgValid(args.tx_fee)) => result = Some(Fail(CannotUpdateSupport))

C5_Witness ==
    /\ method = "update" /\ args.claim_utxo.is_support
    /\ args.amount # None /\ args.tx_fee # None /\ args.broadcast
    /\ result = Some(Fail(CannotUpdateSupport))

\* C6: abandon builds a transaction with the prior claim UTXO as only input and
\* one plain Address output to the return address of amount v - fee, the fee
\* computed from that input/output pair or the override; it fails with the
\* fee-exceeds-amount reason exactly when fee > v.
C6_Abandon ==
    (method = "abandon" /\ FeeArgValid(args.tx_fee)) =>
        LET v == args.claim_utxo.value
            return_addr == IF args.return_addr = None
                           THEN ReceivingAddr(n_receiving) ELSE Get(args.return_addr)
            pair == from_io(<<args.claim_utxo>>,
                            <<Output(TYPE_ADDRESS, NoPayload, return_addr, v)>>)
            fee == RequiredFee(pair, args.tx_fee)
        IN /\ locals.fee = Some(fee)
           /\ (result = Some(Fail(FeeExceedsAbandon))) <=> (fee > v)
           /\ fee > v => tx = None
           /\ fee <= v =>
                /\ tx # None
                /\ Get(tx).inputs = <<args.claim_utxo>>
                /\ Get(tx).outputs =
                     <<Output(TYPE_ADDRESS, NoPayload, return_addr, v - fee)>>

C6_Witness ==
    /\ method = "abandon" /\ args.tx_fee = None
    /\ tx # None
    /\ Get(locals.fee) > 0
    /\ Get(tx).outputs[1].amount = 0

\* C7: for every transaction update or abandon finalizes, the implied fee (sum
\* of inputs minus sum of outputs) is >= 0 and is the caller's fee override
\* when one was given, otherwise the estimator's required fee for the size of
\* the final transaction.
C7_ImpliedFee ==
    (method \in {"update", "abandon"} /\ tx # None) =>
        /\ get_fee(Get(tx)) >= 0
        /\ get_fee(Get(tx)) = RequiredFee(Get(tx), args.tx_fee)

\* C8: for a fixed relay floor and per-kB rate >= 0, the required fee does not
\* decrease when the size grows, and it is never below the relay floor.
C8_FeeMonotone ==
    [][(/\ method = "fee_for_size" /\ method' = "fee_for_size"
        /\ args'.relay_fee = args.relay_fee
        /\ args'.per_kb = args.per_kb
        /\ args'.size >= args.size)
       => (/\ Get(result') >= Get(result)
           /\ Get(result') >= args'.relay_fee
           /\ Get(result) >= args.relay_fee)]_vars

C8_Witness ==
    /\ method = "fee_for_size"
    /\ args.size > KB
    /\ args.relay_fee > 0
    /\ Get(result) > args.relay_fee

\* C9: no output of a transaction finalized by update, abandon or _mktx (the
\* send-everything amount '!' included) has a negative amount.
C9_NoNegativeOutput ==
    (method \in {"update", "abandon", "_mktx"} /\ tx # None) =>
        \A k \in 1..Len(Get(tx).outputs) : Get(tx).outputs[k].amount >= 0

\* C10: for a claim (a support) whose converted amount is positive, the output
\* list handed to the wallet is exactly one output, Address|Claim with payload
\* (name, value) (Address|Support with payload (name, claim_id)), of the
\* requested amount in subunits whatever the fee or fee override; the
\* finalized transaction carries that output unchanged.
C10_ClaimOutput ==
    (/\ method \in {"claim", "support"}
     /\ IntCoin(args.amount) > 0
     /\ FeeArgValid(args.tx_fee)) =>
        LET expected ==
                IF method = "claim"
                THEN Output({"ADDRESS", "CLAIM"},
                            [name |-> Some(args.name), claim_id |-> None,
                             value |-> Some(args.val)],
                            ClaimAddrUsed, IntCoin(args.amount))
                ELSE Output({"ADDRESS", "SUPPORT"},
                            [name |-> Some(args.name),
                             claim_id |-> Some(decode_claim_id_hex(args.claim_id)),
                             value |-> None],
                            ClaimAddrUsed, IntCoin(args.amount))
        IN /\ Called("make_unsigned_transaction")
           /\ locals.outputs = Some(<<expected>>)
           /\ tx # None =>
                /\ Get(tx).outputs[1] = expected
                /\ \A k \in 2..Len(Get(tx).outputs) :
                       Get(tx).outputs[k].type = TYPE_ADDRESS

C10_Witness ==
    /\ method = "claim"
    /\ tx # None
    /\ args.tx_fee # None /\ IntCoin(Get(args.tx_fee)) > 0
    /\ Len(Get(tx).outputs) = 2
    /\ Get(tx).outputs[1].amount = IntCoin(args.amount)

\* the wallet raises NotEnoughFunds for the outputs outs
Unfundable(outs) ==
    make_unsigned_transaction(coins, outs, ConvertOpt(args.tx_fee), ChangeAddrUsed, None) = {}

\* C11: when the wallet cannot fund the spend of a claim, a support or an
\* update with amount >= the prior value, the command returns a failure with
\* the not-enough-funds reason, and nothing is signed or broadcast.
C11_InsufficientFunds ==
    (\/ /\ method \in {"claim", "support"}
        /\ IntCoin(args.amount) > 0 /\ FeeArgValid(args.tx_fee)
        /\ Unfundable(Get(locals.outputs))
     \/ /\ UpdateProceeds /\ args.amount # None
        /\ IntCoin(Get(args.amount)) >= args.claim_utxo.value
        /\ Unfundable(Get(locals.dummy_outputs))) =>
        /\ result = Some(Fail(NotEnoughFundsReason))
        /\ tx = None
        /\ ~Called("sign_transaction")
        /\ ~Called("sendtx")

C11_Witness ==
    /\ method = "update" /\ args.broadcast
    /\ coins # <<>>
    /\ args.amount # None
    /\ IntCoin(Get(args.amount)) > args.claim_utxo.value + SumValues(coins)
    /\ result = Some(Fail(NotEnoughFundsReason))

\* the request has an amount <= 0 or a negative fee override
InvalidRequest ==
    \/ method \in {"claim", "support"} /\ IntCoin(args.amount) <= 0
    \/ method = "update" /\ args.amount # None /\ IntCoin(Get(args.amount)) <= 0
    \/ method \in {"claim", "support", "update", "abandon"} /\ ~FeeArgValid(args.tx_fee)

\* C12: claim, support, update and abandon reject a request with amount <= 0
\* or a negative fee override before any call to the wallet (new-address
\* creation and prior-UTXO lookup included) or to the network.
C12_RejectedBeforeAnyCall ==
    InvalidRequest =>
        /\ result \in {Some(Fail(AmountNotPositive)), Some(Fail(NegativeFee))}
        /\ calls = <<>>

\* the 'tx' entry of the returned dict: the success dict carries str(tx)
\* (lines 921, 977, 1095, 1145), a failure dict only 'success' and 'reason'
ReturnedTx == IF Get(result).success THEN tx ELSE None

\* the network rejected the broadcast: sendtx was called and returned failure
BroadcastRejected ==
    /\ method \in {"claim", "support", "update", "abandon"}
    /\ args.broadcast
    /\ Called("sendtx")
    /\ ~Get(result).success

\* C13: when broadcast is requested and the network reports rejection, the
\* command returns a failure whose reason is the network's message, and the
\* signed transaction remains available to the caller.
C13_BroadcastFailure ==
    BroadcastRejected =>
        /\ result = Some(Fail(NetworkMessage))
        /\ ReturnedTx # None

(* ------------------ properties of the proof verifier ------------------- *)
\* the proof of the response passes the inclusion check
InclusionPasses ==
    /\ method = "_verify_proof"
    /\ args.result.proof # None
    /\ verify_proof(Get(args.result.proof), args.claim_trie_root, args.name)

\* the response names a transaction output and carries a transaction
NamesOutput ==
    /\ InclusionPasses
    /\ has_txhash_and_nOut(Get(args.result.proof))
    /\ args.result.transaction # None

ErrorIs(msg) ==
    /\ Get(result).error # None
    /\ Get(Get(result).error).msg = msg
    /\ Get(result).record = None
    /\ Get(result).raised = None

Accepted == method = "_verify_proof" /\ Get(result).record # None

\* C14: a response whose raw transaction bytes hash to a value other than the
\* proof's txhash (proof present, inclusion check passing, txhash, index and
\* transaction present) gets the hash-mismatch rejection, never a record.
C14_Tampering ==
    (/\ NamesOutput
     /\ Hash(Get(args.result.transaction)) # Get(Get(args.result.proof).txhash)) =>
        ErrorIs(HashMismatch)

\* the outputs of the response's transaction, none when it does not deserialize
OutputsOf(response) ==
    LET parsed == deserialize_transaction(Get(response.transaction))
    IN IF parsed = None THEN <<>> ELSE Get(parsed).outputs

\* the payload of the output the proof names, None when it is not a claim script
PayloadAt(response) ==
    decode_claim_script(script_GetOp(
        OutputsOf(response)[Get(Get(response.proof).nOut) + 1].scriptPubKey))

\* the conditions under which a record is due
RecordDue ==
    /\ NamesOutput
    /\ Hash(Get(args.result.transaction)) = Get(Get(args.result.proof).txhash)
    /\ 0 <= Get(Get(args.result.proof).nOut)
    /\ Get(Get(args.result.proof).nOut) < Len(OutputsOf(args.result))
    /\ PayloadAt(args.result) # None
    /\ Get(PayloadAt(args.result)).name = Some(args.name)

\* C15: the verifier returns a claim record exactly when the response has a
\* proof, the inclusion check succeeds, the proof carries txhash and index, the
\* response carries a transaction whose recomputed hash is the proof's txhash,
\* the index is within the outputs, the output's script decodes as a
\* claim-family script and the decoded name is the requested name; in every
\* other case it returns a rejection and no record.
C15_RecordIff ==
    method = "_verify_proof" =>
        /\ Accepted <=> RecordDue
        /\ ~RecordDue => (/\ Get(result).error # None
                          /\ Get(result).record = None
                          /\ Get(result).raised = None)

\* C16: a response without a proof field gets the proof-missing rejection and
\* no partial record, whatever its transaction and supports are, and the
\* inclusion check is not run.
C16_ProofMissing ==
    (method = "_verify_proof" /\ args.result.proof = None) =>
        /\ result = Some(ProofError(ProofMissing, <<>>))
        /\ ~Called("verify_proof")
        /\ calls = <<>>

C16_Witness ==
    /\ method = "_verify_proof" /\ args.result.proof = None
    /\ args.result.transaction # None
    /\ Len(args.result.supports) = MaxSupports
    /\ ErrorIs(ProofMissing)

\* C17: with every earlier check passing, an output index that is negative or
\* not below the number of outputs of the transaction gets the invalid-nOut
\* rejection, and no output of the transaction is read.
C17_IndexOutOfRange ==
    (/\ NamesOutput
     /\ args.result.has_supports
     /\ deserialize_transaction(Get(args.result.transaction)) # None
     /\ Hash(Get(args.result.transaction)) = Get(Get(args.result.proof).txhash)
     /\ \/ Get(Get(args.result.proof).nOut) < 0
        \/ Get(Get(args.result.proof).nOut) >= Len(OutputsOf(args.result))) =>
        /\ ErrorIs(IndexOutOfRange)
        /\ Get(Get(result).error).detail =
             <<Get(Get(args.result.proof).nOut), Len(OutputsOf(args.result))>>
        /\ ~Called("read_output")

C17_Witness ==
    /\ NamesOutput
    /\ Hash(Get(args.result.transaction)) = Get(Get(args.result.proof).txhash)
    /\ Len(OutputsOf(args.result)) > 0
    /\ Get(Get(args.result.proof).nOut) = Len(OutputsOf(args.result))
    /\ ErrorIs(IndexOutOfRange)

\* C18: a proof that passes the inclusion check but carries no txhash/index
\* gets the name-not-claimed outcome as a valid non-error result.
C18_NotClaimed ==
    (InclusionPasses /\ ~has_txhash_and_nOut(Get(args.result.proof))) =>
        /\ Get(result).error = None
        /\ Get(result).raised = None

\* C19: the amount of an accepted record is the amount of the transaction
\* output at the proof's index plus the sum of the amounts of all entries of
\* the supports list (the output amount alone when the list is empty).
C19_EffectiveAmount ==
    Accepted =>
        LET supports == args.result.supports
            Sum[k \in 0..Len(supports)] ==
                IF k = 0 THEN 0 ELSE Sum[k - 1] + supports[k][3]
            output == OutputsOf(args.result)[Get(Get(args.result.proof).nOut) + 1]
        IN /\ SubunitsOf(Get(Get(result).record).amount)
                = output.value + Sum[Len(supports)]
           /\ supports = <<>> =>
                SubunitsOf(Get(Get(result).record).amount) = output.value

C19_Witness ==
    /\ Accepted
    /\ Len(args.result.supports) = 2
    /\ args.result.supports[1][3] > 0 /\ args.result.supports[2][3] > 0
    /\ SubunitsOf(Get(Get(result).record).amount) > 3

C21_NoException ==
    /\ method \in {"claim", "support", "update", "abandon"} => ~Get(result).raised
    /\ method = "_verify_proof" => Get(result).raised = None

\* an output type: the Address kind and at most one claim-family flag
FamilyFlags == {"CLAIM", "SUPPORT", "UPDATE"}
WellTyped(o) ==
    /\ BitAnd(o.type, TYPE_ADDRESS)
    /\ Cardinality(o.type \cap FamilyFlags) <= 1
    /\ o.type \subseteq ({"ADDRESS"} \cup FamilyFlags)

AllWellTyped(outs) == outs # None => \A k \in 1..Len(Get(outs)) : WellTyped(Get(outs)[k])

\* C22: every output constructed by claim, support, update, abandon and _mktx
\* has the Address kind and at most one of the flags Claim, Support, Update,
\* whatever combination of claim_name, claim_val, claim_id and abandon_txid
\* _mktx is given.
C22_OneFamilyFlag ==
    method \in {"claim", "support", "update", "abandon", "_mktx"} =>
        /\ AllWellTyped(locals.outputs)
        /\ AllWellTyped(locals.dummy_outputs)
        /\ tx # None => AllWellTyped(Some(Get(tx).outputs))

C22_Witness ==
    /\ method = "_mktx"
    /\ args.claim_name # None /\ args.claim_val # None
    /\ args.claim_id # None /\ args.abandon_txid # None
    /\ tx # None
    /\ Get(tx).outputs[1].type = {"ADDRESS", "UPDATE"}

\* the claim-family fields of a _mktx request
MktxFields ==
    (IF args.claim_name # None THEN {"claim_name"} ELSE {})
    \cup (IF args.claim_val # None THEN {"claim_val"} ELSE {})
    \cup (IF args.claim_id # None THEN {"claim_id"} ELSE {})
    \cup (IF args.abandon_txid # None THEN {"abandon_txid"} ELSE {})

\* the fields of a payment, an abandon, a claim, a support and an update
IntentFields ==
    { {}, {"abandon_txid"}, {"claim_name", "claim_val"}, {"claim_name", "claim_id"},
      {"claim_name", "claim_id", "claim_val", "abandon_txid"} }

MktxRejected == Get(result).raised /\ tx = None

\* C23: _mktx rejects a request that combines a claim-family payload with
\* more than one recipient output, so that no transaction it builds has more
\* than one claim-family output, and it rejects a request whose claim-family
\* fields are not those of one intent instead of building another intent.
C23_MktxRejects ==
    method = "_mktx" =>
        /\ (Len(args.outputs) > 1
            /\ (\/ args.claim_name # None /\ args.claim_id # None
                \/ args.claim_name # None /\ args.claim_val # None)) => MktxRejected
        /\ tx # None =>
              Cardinality({ k \in 1..Len(Get(tx).outputs) :
                              Get(tx).outputs[k].type \cap FamilyFlags # {} }) <= 1
        /\ MktxFields \notin IntentFields => MktxRejected

\* the outcomes of invoking the returned command once more with the same
\* arguments: the wallet's coins are those of the first invocation, its
\* address counters are those the first invocation left
Again ==
    CASE method = "claim" ->
            ClaimOutcomes(args.name, args.val, args.amount, args.broadcast,
                          args.claim_addr, args.tx_fee, args.change_addr)
      [] method = "support" ->
            SupportOutcomes(args.name, args.claim_id, args.amount, args.broadcast,
                            args.claim_addr, args.tx_fee, args.change_addr)
      [] method = "update" ->
            UpdateOutcomes(args.claim_utxo, args.name, args.claim_id, args.val,
                           args.amount, args.broadcast, args.claim_addr, args.tx_fee,
                           args.change_addr)
      [] method = "abandon" ->
            AbandonOutcomes(args.claim_utxo, args.broadcast, args.return_addr,
                            args.tx_fee)

\* C24: claim, support, update and abandon invoked a second time with the same
\* arguments against the same coins can build the transaction the first
\* invocation built (same inputs, same output types, payloads, destinations
\* and amounts), also when an address argument is left unspecified.
C24_Idempotent ==
    (method \in {"claim", "support", "update", "abandon"} /\ tx # None) =>
        tx \in { o.tx : o \in Again }

\* the transaction whose size the fee was measured on: the wallet's
\* dummy_tx (line 1054), or the one _calculate_fee builds from the claim
\* input and the dummy outputs (lines 1033, 1074, 1132)
Draft ==
    IF locals.dummy_tx # None THEN locals.dummy_tx
    ELSE IF locals.dummy_outputs # None
    THEN Some(from_io(<<args.claim_utxo>>, Get(locals.dummy_outputs)))
    ELSE None

TypesOf(outs) == [k \in 1..Len(outs) |-> outs[k].type]

\* C25: an update or an abandon without a fee override measures its fee on a
\* draft that has the inputs of the final transaction and as many outputs,
\* of the same types, as the final transaction, in each of the three
\* branches of update.
C25_DraftMatchesFinal ==
    (method \in {"update", "abandon"} /\ args.tx_fee = None /\ tx # None) =>
        /\ Draft # None
        /\ Get(Draft).inputs = Get(tx).inputs
        /\ TypesOf(Get(Draft).outputs) = TypesOf(Get(tx).outputs)

\* the reasons of the rejections, in the order of the checks
RejectionReasons ==
    <<ProofMissing, ProofInvalid, NameNotClaimed, MissingTransaction, HashMismatch,
      IndexOutOfRange, NotAClaimScript, NameMismatch>>

\* the reason of the first check the response violates, None when it passes all
FirstViolated ==
    LET response == args.result
    IN IF response.proof = None THEN Some(ProofMissing)
       ELSE IF ~InclusionPasses THEN Some(ProofInvalid)
       ELSE IF ~has_txhash_and_nOut(Get(response.proof)) THEN Some(NameNotClaimed)
       ELSE IF response.transaction = None THEN Some(MissingTransaction)
       ELSE IF Hash(Get(response.transaction)) # Get(Get(response.proof).txhash)
       THEN Some(HashMismatch)
       ELSE IF ~(/\ 0 <= Get(Get(response.proof).nOut)
                 /\ Get(Get(response.proof).nOut) < Len(OutputsOf(response)))
       THEN Some(IndexOutOfRange)
       ELSE IF PayloadAt(response) = None THEN Some(NotAClaimScript)
       ELSE IF Get(PayloadAt(response)).name # Some(args.name) THEN Some(NameMismatch)
       ELSE None

\* C26: the verifier applies its checks in the order proof present, inclusion,
\* txhash and index present, transaction present, hash match, index in range,
\* script decodes as claim-family, name match; the reason it returns is that
\* of the first check the response violates, and the reasons of the
\* rejections are pairwise distinct.
C26_FirstViolatedCheck ==
    /\ \A i, j \in 1..Len(RejectionReasons) :
           RejectionReasons[i] = RejectionReasons[j] => i = j
    /\ (method = "_verify_proof" /\ FirstViolated # None) => ErrorIs(Get(FirstViolated))

\* the positions of the calls of c in the call sequence
Positions(c) == { k \in 1..Len(calls) : calls[k] = c }

\* the command returned a validation, guard, fee or insufficient-funds failure
FailedBeforeSigning ==
    result \in { Some(Fail(r)) : r \in { AmountNotPositive, NegativeFee,
                    CannotUpdateSupport, FeeExceedsAmount, FeeExceedsChange,
                    FeeExceedsAbandon, NotEnoughFundsReason } }

\* C27: claim, support, update and abandon call the wallet's sign at most once,
\* after every validation and fee check has passed and every other wallet
\* call has been made; they call broadcast at most once, after sign and only
\* when the broadcast flag is set; a command that returns a validation,
\* guard, fee or insufficient-funds failure has called neither.
C27_SignThenBroadcast ==
    method \in {"claim", "support", "update", "abandon"} =>
        /\ Cardinality(Positions("sign_transaction")) <= 1
        /\ Cardinality(Positions("sendtx")) <= 1
        /\ Called("sign_transaction") =>
              /\ tx # None
              /\ ~FailedBeforeSigning
              /\ \A i \in Positions("sign_transaction") :
                     \A k \in (i + 1)..Len(calls) : calls[k] = "sendtx"
        /\ Called("sendtx") =>
              /\ args.broadcast
              /\ \E i \in Positions("sign_transaction") :
                     \A j \in Positions("sendtx") : i < j
        /\ FailedBeforeSigning => ~Called("sign_transaction") /\ ~Called("sendtx")

C27_Witness ==
    /\ method = "abandon"
    /\ ~args.broadcast
    /\ result = Some(Ok)
    /\ Positions("sign_transaction") = {Len(calls)}
    /\ ~Called("sendtx")

\* C28: the record of an accepted response has the value decoded from the
\* script of the output the proof names, the hash recomputed from the raw
\* transaction as txid, the proof's index as output index, and the
\* transaction's locktime plus 1 as height.
C28_RecordFields ==
    Accepted =>
        LET record == Get(Get(result).record)
            raw == Get(args.result.transaction)
        IN /\ Some(record.value) = Get(PayloadAt(args.result)).value
           /\ record.txid = Hash(raw)
           /\ record.nout = Get(Get(args.result.proof).nOut)
           /\ record.height = Get(deserialize_transaction(raw)).lockTime + 1

C28_Witness ==
    /\ Accepted
    /\ Get(Get(result).record).height = 6
    /\ Get(Get(result).record).txid = Get(Get(args.result.proof).txhash)
    /\ Get(Get(result).record).nout = 0

(* ------------------------ properties of _run -------------------------- *)
\* the commands registered with a 'p' among their flags
PasswordCommands == {"payto", "abandon"}

\* C29: _run invokes the password getter for a command exactly when the
\* command is registered as requiring a password and the wallet uses
\* encryption; after a command that returned normally the stored password is
\* None and the completion callback, when one is configured, has been invoked
\* exactly once.
C29_Run ==
    method = "_run" =>
        /\ Cardinality(Positions("password_getter")) <= 1
        /\ Called("password_getter") <=>
              (args.method \in PasswordCommands /\ use_encryption)
        /\ ~Get(result).raised =>
              /\ password = None
              /\ Cardinality(Positions("callback")) = IF callback # None THEN 1 ELSE 0
              /\ callback # None => calls[Len(calls)] = "callback"

C29_Witness ==
    /\ method = "_run"
    /\ args.method = "abandon"
    /\ use_encryption
    /\ callback # None
    /\ calls[1] = "password_getter"
    /\ Called("sign_transaction")
    /\ calls[Len(calls)] = "callback"
    /\ password = None
    /\ Get(result) = Ok

====
